---- MODULE Spec2Model ----
(***************************************************************************)
(* A model of the JSON-RPC 2.0 codec of gojsonrpc (src/jsonrpc.go).        *)
(*                                                                         *)
(* A byte payload is modelled by the JSON document it spells: its          *)
(* top-level kind and, for an object, the value of each member the codec   *)
(* looks at (any other member is ignored by encoding/json).  A member is   *)
(* either absent or holds a JSON value of one of the seven JSON kinds.     *)
(* Go values (the arguments of the builders and the fields of the decoded  *)
(* structures) are modelled apart from JSON values, and json.Marshal and   *)
(* json.Unmarshal are the conversions between the two.                     *)
(***************************************************************************)
EXTENDS Integers, Sequences, FiniteSets, TLC

VARIABLES wire, sent, ret, canon, made

vars == <<wire, sent, ret, canon, made>>

(***************************************************************************)
(* Program constants.                                                      *)
(***************************************************************************)
jsonRPCProtocol == "2.0"

ParseError == -32700
InvalidRequest == -32600
MethodNotFound == -32601
InvalidMethodParameters == -32602
InternalError == -32603

CustomCodeMin == -32099
CustomCodeMax == -32000

(***************************************************************************)
(* JSON values, as they appear on the wire.                                *)
(*                                                                         *)
(* A number literal [n, x] denotes the decimal value n when x = "int",     *)
(* n + 1/2 when x = "half" and 2^53 + n when x = "big": the three classes  *)
(* that behave differently when Go decodes a number (into float64 for an   *)
(* interface, into int for an int field).                                  *)
(* An object carries the three members an error object can have; an       *)
(* object with none of them stands for any other object.                   *)
(***************************************************************************)
Absent == [k |-> "absent"]
JNull == [k |-> "null"]
JBool(b) == [k |-> "bool", b |-> b]
JNum(n, x) == [k |-> "number", n |-> n, x |-> x]
JInt(n) == JNum(n, "int")
JStr(s) == [k |-> "string", s |-> s]
JArr == [k |-> "array"]
JObj(code, message, data) ==
    [k |-> "object", code |-> code, message |-> message, data |-> data]
JAnyObj == JObj(Absent, Absent, Absent)

(***************************************************************************)
(* Go values held in an `any`, and the zero-length json.RawMessage.        *)
(* A float64 [n, x] uses the number classes above plus "nan" for NaN and   *)
(* the infinities, which JSON cannot spell.  GoChan stands for a value     *)
(* json.Marshal does not support, GoNilPtr for a nil pointer held in a     *)
(* non-nil interface (it is marshalled as null).                           *)
(***************************************************************************)
GoNil == [t |-> "nil"]
GoInt(n, x) == [t |-> "int", n |-> n, x |-> x]
GoFloat(n, x) == [t |-> "float64", n |-> n, x |-> x]
GoNaN == GoFloat(0, "nan")
GoString(s) == [t |-> "string", s |-> s]
GoBool(b) == [t |-> "bool", b |-> b]
GoSlice == [t |-> "slice"]
GoMap == [t |-> "map"]
GoChan == [t |-> "chan"]
GoNilPtr == [t |-> "nilptr"]
EmptyRaw == [k |-> "empty"]

(***************************************************************************)
(* strings.HasPrefix.                                                      *)
(***************************************************************************)
HasPrefix(s, prefix) ==
    Len(s) >= Len(prefix) /\ SubSeq(s, 1, Len(prefix)) = prefix

(***************************************************************************)
(* Bounds of the input sets.                                               *)
(***************************************************************************)
MaxBigOffset == 3

(***************************************************************************)
(* strconv.ParseFloat(s, 64) on a number literal: round to nearest         *)
(* float64, ties to even.  Below 2^53 integers and halves are exact; from  *)
(* 2^53 on, float64 only holds even integers, and 2^53 + n with n odd is   *)
(* a tie between n-1 and n+1 that goes to the even mantissa: the multiple  *)
(* of 4.                                                                   *)
(***************************************************************************)
RoundToFloat64(n, x) ==
    IF x = "big" /\ n % 2 = 1
    THEN IF n % 4 = 1 THEN GoFloat(n - 1, "big") ELSE GoFloat(n + 1, "big")
    ELSE GoFloat(n, x)

(***************************************************************************)
(* json.Unmarshal into a field of a given Go type.  Each returns           *)
(* [v |-> the field after decoding, bad |-> an UnmarshalTypeError was      *)
(* saved].  A JSON null, like an absent member, leaves the zero value.     *)
(***************************************************************************)
DecodeString(m) ==
    CASE m.k \in {"absent", "null"} -> [v |-> "", bad |-> FALSE]
      [] m.k = "string" -> [v |-> m.s, bad |-> FALSE]
      [] OTHER -> [v |-> "", bad |-> TRUE]

DecodeRaw(m) ==
    IF m.k = "absent" THEN [v |-> EmptyRaw, bad |-> FALSE]
    ELSE [v |-> m, bad |-> FALSE]

DecodeAny(m) ==
    CASE m.k \in {"absent", "null"} -> [v |-> GoNil, bad |-> FALSE]
      [] m.k = "bool" -> [v |-> GoBool(m.b), bad |-> FALSE]
      [] m.k = "number" -> [v |-> RoundToFloat64(m.n, m.x), bad |-> FALSE]
      [] m.k = "string" -> [v |-> GoString(m.s), bad |-> FALSE]
      [] m.k = "array" -> [v |-> GoSlice, bad |-> FALSE]
      [] m.k = "object" -> [v |-> GoMap, bad |-> FALSE]

(***************************************************************************)
(* The payloads.  top is the kind of the top-level JSON value, or          *)
(* "malformed" for bytes that are not a JSON text; nl tells whether the    *)
(* payload ends with a newline byte.                                       *)
(***************************************************************************)
Payload(top, jsonrpc, method, params, id, result, error, nl) ==
    [top |-> top, jsonrpc |-> jsonrpc, method |-> method, params |-> params,
     id |-> id, result |-> result, error |-> error, nl |-> nl]

NonObject(top) ==
    Payload(top, Absent, Absent, Absent, Absent, Absent, Absent, FALSE)

(***************************************************************************)
(* json.Unmarshal(requestRaw, &request).                                   *)
(***************************************************************************)
ZeroRequest ==
    [JsonRPC |-> "", Method |-> "", Params |-> EmptyRaw, ID |-> GoNil]

UnmarshalRequest(p) ==
    CASE p.top = "malformed" -> [err |-> "syntax", v |-> ZeroRequest]
      [] p.top = "null" -> [err |-> "none", v |-> ZeroRequest]
      [] p.top = "object" ->
           LET j == DecodeString(p.jsonrpc)
               m == DecodeString(p.method)
               r == DecodeRaw(p.params)
               i == DecodeAny(p.id)
           IN  [err |-> IF j.bad \/ m.bad \/ r.bad \/ i.bad
                        THEN "type" ELSE "none",
                v |-> [JsonRPC |-> j.v, Method |-> m.v,
                       Params |-> r.v, ID |-> i.v]]
      [] OTHER -> [err |-> "type", v |-> ZeroRequest]

(***************************************************************************)
(* The canonical error objects (package variables).                        *)
(***************************************************************************)
Err(code, message, data) ==
    [Code |-> code, Message |-> message, Data |-> data]

JsonParseError == Err(ParseError, "Parse error", EmptyRaw)
JsonInvalidRequest == Err(InvalidRequest, "Invalid Request", EmptyRaw)
JsonMethodNotFound == Err(MethodNotFound, "Method not found", EmptyRaw)
JsonInvalidMethodParameters ==
    Err(InvalidMethodParameters, "Invalid method parameters", EmptyRaw)
JsonInternalError == Err(InternalError, "Internal error", EmptyRaw)

CanonInit ==
    [JsonParseError |-> JsonParseError,
     JsonInvalidRequest |-> JsonInvalidRequest,
     JsonMethodNotFound |-> JsonMethodNotFound,
     JsonInvalidMethodParameters |-> JsonInvalidMethodParameters,
     JsonInternalError |-> JsonInternalError]

(***************************************************************************)
(* ParseRequest.  Returns [ok, request, error]: on success the request     *)
(* and a nil error, on failure a nil request and the canonical error the   *)
(* returned pointer refers to.                                             *)
(***************************************************************************)
NoRequest == [nil |-> TRUE]
NoError == [nil |-> TRUE]

\* faulty variant: the reserved prefix of the method is not looked at
ParseRequestNoPrefixCheck(requestRaw, c) ==
    LET u == UnmarshalRequest(requestRaw)
        request == u.v
    IN  IF u.err # "none"
        THEN [ok |-> FALSE, request |-> NoRequest, error |-> c.JsonParseError]
        ELSE IF request.JsonRPC # jsonRPCProtocol
        THEN [ok |-> FALSE, request |-> NoRequest,
              error |-> c.JsonInvalidRequest]
        ELSE IF request.ID.t \in {"float64", "string"}
        THEN [ok |-> TRUE, request |-> request, error |-> NoError]
        ELSE [ok |-> FALSE, request |-> NoRequest,
              error |-> c.JsonInvalidRequest]

ParseRequest(requestRaw, c) ==
    LET u == UnmarshalRequest(requestRaw)
        request == u.v
    IN  IF u.err # "none"
        THEN [ok |-> FALSE, request |-> NoRequest, error |-> c.JsonParseError]
        ELSE IF request.JsonRPC # jsonRPCProtocol
        THEN [ok |-> FALSE, request |-> NoRequest,
              error |-> c.JsonInvalidRequest]
        ELSE IF HasPrefix(request.Method, "rpc.")
        THEN [ok |-> FALSE, request |-> NoRequest,
              error |-> c.JsonInvalidRequest]
        ELSE IF request.ID.t \in {"float64", "string"}
        THEN [ok |-> TRUE, request |-> request, error |-> NoError]
        ELSE [ok |-> FALSE, request |-> NoRequest,
              error |-> c.JsonInvalidRequest]

(***************************************************************************)
(* ParseNotification.  Its error is a plain Go error, not an error object. *)
(***************************************************************************)
ZeroNotification == [JsonRPC |-> "", Method |-> "", Params |-> EmptyRaw]

\* faulty variant: a member the notification has no field for is refused
UnmarshalNotificationStrict(p) ==
    CASE p.top = "malformed" -> [err |-> "syntax", v |-> ZeroNotification]
      [] p.top = "null" -> [err |-> "none", v |-> ZeroNotification]
      [] p.top = "object" ->
           LET j == DecodeString(p.jsonrpc)
               m == DecodeString(p.method)
               r == DecodeRaw(p.params)
           IN  [err |-> IF j.bad \/ m.bad \/ r.bad \/ p.id # Absent
                        THEN "type" ELSE "none",
                v |-> [JsonRPC |-> j.v, Method |-> m.v, Params |-> r.v]]
      [] OTHER -> [err |-> "type", v |-> ZeroNotification]

UnmarshalNotification(p) ==
    CASE p.top = "malformed" -> [err |-> "syntax", v |-> ZeroNotification]
      [] p.top = "null" -> [err |-> "none", v |-> ZeroNotification]
      [] p.top = "object" ->
           LET j == DecodeString(p.jsonrpc)
               m == DecodeString(p.method)
               r == DecodeRaw(p.params)
           IN  [err |-> IF j.bad \/ m.bad \/ r.bad THEN "type" ELSE "none",
                v |-> [JsonRPC |-> j.v, Method |-> m.v, Params |-> r.v]]
      [] OTHER -> [err |-> "type", v |-> ZeroNotification]

NoNotification == [nil |-> TRUE]

\* faulty variant: the reserved prefix of the method is not looked at
ParseNotificationNoPrefixCheck(notificationRaw) ==
    LET u == UnmarshalNotification(notificationRaw)
        notification == u.v
    IN  IF u.err # "none"
        THEN [ok |-> FALSE, notification |-> NoNotification, error |-> u.err]
        ELSE IF notification.JsonRPC # jsonRPCProtocol
        THEN [ok |-> FALSE, notification |-> NoNotification,
              error |-> "invalid notification"]
        ELSE [ok |-> TRUE, notification |-> notification, error |-> "nil"]

ParseNotification(notificationRaw) ==
    LET u == UnmarshalNotification(notificationRaw)
        notification == u.v
    IN  IF u.err # "none"
        THEN [ok |-> FALSE, notification |-> NoNotification, error |-> u.err]
        ELSE IF notification.JsonRPC # jsonRPCProtocol
        THEN [ok |-> FALSE, notification |-> NoNotification,
              error |-> "invalid notification"]
        ELSE IF HasPrefix(notification.Method, "rpc.")
        THEN [ok |-> FALSE, notification |-> NoNotification,
              error |-> "invalid notification"]
        ELSE [ok |-> TRUE, notification |-> notification, error |-> "nil"]

(***************************************************************************)
(* json.Marshal.  In a Go string the character "#" stands for a byte that  *)
(* is not valid UTF-8 and "?" for U+FFFD: the encoder writes the           *)
(* replacement character for every invalid byte.                           *)
(***************************************************************************)
RECURSIVE ToValidUTF8(_)
ToValidUTF8(s) ==
    IF s = "" THEN ""
    ELSE (IF SubSeq(s, 1, 1) = "#" THEN "?" ELSE SubSeq(s, 1, 1))
         \o ToValidUTF8(SubSeq(s, 2, Len(s)))

\* json.Marshal of a value held in an interface: [err, v]
MarshalAny(v) ==
    CASE v.t = "nil" -> [err |-> FALSE, v |-> JNull]
      [] v.t = "int" -> [err |-> FALSE, v |-> JNum(v.n, v.x)]
      [] v.t = "float64" ->
           IF v.x = "nan" THEN [err |-> TRUE, v |-> JNull]
           ELSE [err |-> FALSE, v |-> JNum(v.n, v.x)]
      [] v.t = "string" -> [err |-> FALSE, v |-> JStr(ToValidUTF8(v.s))]
      [] v.t = "bool" -> [err |-> FALSE, v |-> JBool(v.b)]
      [] v.t = "slice" -> [err |-> FALSE, v |-> JArr]
      [] v.t = "map" -> [err |-> FALSE, v |-> JAnyObj]
      [] v.t = "nilptr" -> [err |-> FALSE, v |-> JNull]
      [] OTHER -> [err |-> TRUE, v |-> JNull]

\* a json.RawMessage field tagged omitempty
MarshalRawOmitEmpty(raw) == IF raw = EmptyRaw THEN Absent ELSE raw

NoPayload == NonObject("none")

\* json.Marshal(&request) followed by append(requestRaw, '\n')
MarshalRequest(request) ==
    LET i == MarshalAny(request.ID)
    IN  IF i.err THEN [err |-> TRUE, bytes |-> NoPayload]
        ELSE [err |-> FALSE,
              bytes |-> Payload("object",
                                JStr(ToValidUTF8(request.JsonRPC)),
                                JStr(ToValidUTF8(request.Method)),
                                MarshalRawOmitEmpty(request.Params),
                                i.v, Absent, Absent, TRUE)]

(***************************************************************************)
(* NewRequest.  The type parameter restricts id to int, float64 or string. *)
(***************************************************************************)
\* faulty variant: params is marshalled even when it is nil
NewRequestMarshalsNilParams(method, params, id) ==
    LET p == MarshalAny(params)
    IN  IF p.err THEN [err |-> TRUE, bytes |-> NoPayload]
        ELSE MarshalRequest([JsonRPC |-> "2.0", Method |-> method,
                             Params |-> p.v, ID |-> id])

NewRequest(method, params, id) ==
    LET p == MarshalAny(params)
    IN  IF params # GoNil /\ p.err THEN [err |-> TRUE, bytes |-> NoPayload]
        ELSE MarshalRequest([JsonRPC |-> "2.0", Method |-> method,
                             Params |-> IF params # GoNil THEN p.v
                                        ELSE EmptyRaw,
                             ID |-> id])

(***************************************************************************)
(* NewNotification.                                                        *)
(***************************************************************************)
\* json.Marshal(&notification) followed by append(notificationRaw, '\n')
MarshalNotification(notification) ==
    [err |-> FALSE,
     bytes |-> Payload("object",
                       JStr(ToValidUTF8(notification.JsonRPC)),
                       JStr(ToValidUTF8(notification.Method)),
                       MarshalRawOmitEmpty(notification.Params),
                       Absent, Absent, Absent, TRUE)]

\* faulty variant: params is marshalled even when it is nil
NewNotificationMarshalsNilParams(method, params) ==
    LET p == MarshalAny(params)
    IN  IF p.err THEN [err |-> TRUE, bytes |-> NoPayload]
        ELSE MarshalNotification([JsonRPC |-> "2.0", Method |-> method,
                                  Params |-> p.v])

NewNotification(method, params) ==
    LET p == MarshalAny(params)
    IN  IF params # GoNil /\ p.err THEN [err |-> TRUE, bytes |-> NoPayload]
        ELSE MarshalNotification([JsonRPC |-> "2.0", Method |-> method,
                                  Params |-> IF params # GoNil THEN p.v
                                             ELSE EmptyRaw])

(***************************************************************************)
(* Error objects: Error, AddData and NewJsonRPCError.  The last two return *)
(* [err, v]; AddData also tells what the pointer it returns refers to      *)
(* (ref) and what the object it was called on holds when it returns        *)
(* (recv): the receiver is passed by value, and the result is built in a   *)
(* new object.                                                             *)
(***************************************************************************)
\* fmt.Sprintf("Code: %v Message: %v Data: %v", ...), as its parts
Error(j) == <<"Code: ", j.Code, " Message: ", j.Message, " Data: ", j.Data>>

\* faulty variant: the data is stored in the object AddData is called on,
\* and a pointer to that object is returned
AddDataInPlace(j, data) ==
    LET d == MarshalAny(data)
    IN  IF d.err
        THEN [err |-> TRUE, v |-> NoError, ref |-> "nil", recv |-> j]
        ELSE [err |-> FALSE, v |-> Err(j.Code, j.Message, d.v),
              ref |-> "receiver", recv |-> Err(j.Code, j.Message, d.v)]

\* faulty variant: the new object does not get the receiver's message
AddDataDropsMessage(j, data) ==
    LET d == MarshalAny(data)
    IN  IF d.err
        THEN [err |-> TRUE, v |-> NoError, ref |-> "nil", recv |-> j]
        ELSE [err |-> FALSE, v |-> Err(j.Code, "", d.v),
              ref |-> "new", recv |-> j]

AddData(j, data) ==
    LET d == MarshalAny(data)
    IN  IF d.err
        THEN [err |-> TRUE, v |-> NoError, ref |-> "nil", recv |-> j]
        ELSE [err |-> FALSE, v |-> Err(j.Code, j.Message, d.v),
              ref |-> "new", recv |-> j]

\* faulty variant: the two ends of the custom range are refused
NewJsonRPCErrorOpenRange(code, message, data) ==
    IF code <= CustomCodeMin \/ code >= CustomCodeMax
    THEN [err |-> TRUE, v |-> NoError]
    ELSE LET d == MarshalAny(data)
         IN  IF d.err THEN [err |-> TRUE, v |-> NoError]
             ELSE [err |-> FALSE, v |-> Err(code, message, d.v)]

NewJsonRPCError(code, message, data) ==
    IF code < CustomCodeMin \/ code > CustomCodeMax
    THEN [err |-> TRUE, v |-> NoError]
    ELSE LET d == MarshalAny(data)
         IN  IF d.err THEN [err |-> TRUE, v |-> NoError]
             ELSE [err |-> FALSE, v |-> Err(code, message, d.v)]

(***************************************************************************)
(* json.Unmarshal(responseRaw, &response).  An int field takes a number    *)
(* literal without fraction; the codes drawn stay below 2^53.  A null      *)
(* error member leaves the Error pointer nil.                              *)
(***************************************************************************)
DecodeInt(m) ==
    CASE m.k \in {"absent", "null"} -> [v |-> 0, bad |-> FALSE]
      [] m.k = "number" /\ m.x = "int" -> [v |-> m.n, bad |-> FALSE]
      [] m.k = "number" /\ m.x = "half" -> [v |-> 0, bad |-> TRUE]
      [] m.k \in {"bool", "string", "array", "object"} ->
           [v |-> 0, bad |-> TRUE]

DecodeError(m) ==
    CASE m.k \in {"absent", "null"} -> [v |-> NoError, bad |-> FALSE]
      [] m.k = "object" ->
           LET c == DecodeInt(m.code)
               s == DecodeString(m.message)
               d == DecodeRaw(m.data)
           IN  [v |-> Err(c.v, s.v, d.v), bad |-> c.bad \/ s.bad \/ d.bad]
      [] OTHER -> [v |-> NoError, bad |-> TRUE]

ZeroResponse ==
    [JsonRPC |-> "", Result |-> EmptyRaw, Error |-> NoError, ID |-> GoNil]

UnmarshalResponse(p) ==
    CASE p.top = "malformed" -> [err |-> "syntax", v |-> ZeroResponse]
      [] p.top = "null" -> [err |-> "none", v |-> ZeroResponse]
      [] p.top = "object" ->
           LET j == DecodeString(p.jsonrpc)
               r == DecodeRaw(p.result)
               e == DecodeError(p.error)
               i == DecodeAny(p.id)
           IN  [err |-> IF j.bad \/ r.bad \/ e.bad \/ i.bad
                        THEN "type" ELSE "none",
                v |-> [JsonRPC |-> j.v, Result |-> r.v,
                       Error |-> e.v, ID |-> i.v]]
      [] OTHER -> [err |-> "type", v |-> ZeroResponse]

(***************************************************************************)
(* ParseResponse.  Returns [ok, response, error]; error names the check    *)
(* that failed.                                                            *)
(***************************************************************************)
NoResponse == [nil |-> TRUE]

Rejected(why) == [ok |-> FALSE, response |-> NoResponse, error |-> why]

\* faulty variant: a null id is refused whatever the error's code
ParseResponseNullIdRefused(responseRaw) ==
    LET u == UnmarshalResponse(responseRaw)
        response == u.v
    IN  IF u.err # "none" THEN Rejected(u.err)
        ELSE IF response.JsonRPC # jsonRPCProtocol
        THEN Rejected("jsonrpc must be exactly 2.0")
        ELSE IF response.Result = EmptyRaw /\ response.Error = NoError
        THEN Rejected("response must have a result or an error")
        ELSE IF response.Result # EmptyRaw /\ response.Error # NoError
        THEN Rejected("response must not have a result and an error")
        ELSE IF response.ID = GoNil
        THEN Rejected("ID must not be null")
        ELSE [ok |-> TRUE, response |-> response, error |-> "nil"]

\* faulty variant: a null id is accepted with any error code
ParseResponseNullIdAnyCode(responseRaw) ==
    LET u == UnmarshalResponse(responseRaw)
        response == u.v
    IN  IF u.err # "none" THEN Rejected(u.err)
        ELSE IF response.JsonRPC # jsonRPCProtocol
        THEN Rejected("jsonrpc must be exactly 2.0")
        ELSE IF response.Result = EmptyRaw /\ response.Error = NoError
        THEN Rejected("response must have a result or an error")
        ELSE IF response.Result # EmptyRaw /\ response.Error # NoError
        THEN Rejected("response must not have a result and an error")
        ELSE IF response.ID = GoNil /\ response.Error = NoError
        THEN Rejected("ID must not be null when error does not exist")
        ELSE [ok |-> TRUE, response |-> response, error |-> "nil"]

\* faulty variant: a payload with both a result and an error is let through
ParseResponseBothAccepted(responseRaw) ==
    LET u == UnmarshalResponse(responseRaw)
        response == u.v
    IN  IF u.err # "none" THEN Rejected(u.err)
        ELSE IF response.JsonRPC # jsonRPCProtocol
        THEN Rejected("jsonrpc must be exactly 2.0")
        ELSE IF response.Result = EmptyRaw /\ response.Error = NoError
        THEN Rejected("response must have a result or an error")
        ELSE IF response.ID = GoNil /\ response.Error = NoError
        THEN Rejected("ID must not be null when error does not exist")
        ELSE IF /\ response.ID = GoNil
                /\ response.Error.Code # ParseError
                /\ response.Error.Code # InvalidRequest
        THEN Rejected("ID must be null only for ParseError, InvalidRequest")
        ELSE [ok |-> TRUE, response |-> response, error |-> "nil"]

\* faulty variant: the id is not looked at
ParseResponseNoIdCheck(responseRaw) ==
    LET u == UnmarshalResponse(responseRaw)
        response == u.v
    IN  IF u.err # "none" THEN Rejected(u.err)
        ELSE IF response.JsonRPC # jsonRPCProtocol
        THEN Rejected("jsonrpc must be exactly 2.0")
        ELSE IF response.Result = EmptyRaw /\ response.Error = NoError
        THEN Rejected("response must have a result or an error")
        ELSE IF response.Result # EmptyRaw /\ response.Error # NoError
        THEN Rejected("response must not have a result and an error")
        ELSE [ok |-> TRUE, response |-> response, error |-> "nil"]

\* faulty variant: the id is checked before result and error are
ParseResponseIdFirst(responseRaw) ==
    LET u == UnmarshalResponse(responseRaw)
        response == u.v
    IN  IF u.err # "none" THEN Rejected(u.err)
        ELSE IF response.JsonRPC # jsonRPCProtocol
        THEN Rejected("jsonrpc must be exactly 2.0")
        ELSE IF response.ID = GoNil /\ response.Error = NoError
        THEN Rejected("ID must not be null when error does not exist")
        ELSE IF /\ response.ID = GoNil
                /\ response.Error.Code # ParseError
                /\ response.Error.Code # InvalidRequest
        THEN Rejected("ID must be null only for ParseError, InvalidRequest")
        ELSE IF response.Result = EmptyRaw /\ response.Error = NoError
        THEN Rejected("response must have a result or an error")
        ELSE IF response.Result # EmptyRaw /\ response.Error # NoError
        THEN Rejected("response must not have a result and an error")
        ELSE [ok |-> TRUE, response |-> response, error |-> "nil"]

\* faulty variant: the id must be a number or a string, as in a request
ParseResponseTypedId(responseRaw) ==
    LET u == UnmarshalResponse(responseRaw)
        response == u.v
    IN  IF u.err # "none" THEN Rejected(u.err)
        ELSE IF response.JsonRPC # jsonRPCProtocol
        THEN Rejected("jsonrpc must be exactly 2.0")
        ELSE IF response.Result = EmptyRaw /\ response.Error = NoError
        THEN Rejected("response must have a result or an error")
        ELSE IF response.Result # EmptyRaw /\ response.Error # NoError
        THEN Rejected("response must not have a result and an error")
        ELSE IF response.ID = GoNil /\ response.Error = NoError
        THEN Rejected("ID must not be null when error does not exist")
        ELSE IF /\ response.ID = GoNil
                /\ response.Error.Code # ParseError
                /\ response.Error.Code # InvalidRequest
        THEN Rejected("ID must be null only for ParseError, InvalidRequest")
        ELSE IF response.ID.t \notin {"nil", "float64", "string"}
        THEN Rejected("ID must be a number or a string")
        ELSE [ok |-> TRUE, response |-> response, error |-> "nil"]

ParseResponse(responseRaw) ==
    LET u == UnmarshalResponse(responseRaw)
        response == u.v
    IN  IF u.err # "none" THEN Rejected(u.err)
        ELSE IF response.JsonRPC # jsonRPCProtocol
        THEN Rejected("jsonrpc must be exactly 2.0")
        ELSE IF response.Result = EmptyRaw /\ response.Error = NoError
        THEN Rejected("response must have a result or an error")
        ELSE IF response.Result # EmptyRaw /\ response.Error # NoError
        THEN Rejected("response must not have a result and an error")
        ELSE IF response.ID = GoNil /\ response.Error = NoError
        THEN Rejected("ID must not be null when error does not exist")
        ELSE IF /\ response.ID = GoNil
                /\ response.Error.Code # ParseError
                /\ response.Error.Code # InvalidRequest
        THEN Rejected("ID must be null only for ParseError, InvalidRequest")
        ELSE [ok |-> TRUE, response |-> response, error |-> "nil"]

(***************************************************************************)
(* json.Marshal(&response) followed by append(responseRaw, '\n').          *)
(***************************************************************************)
MarshalError(e) ==
    IF e = NoError THEN Absent
    ELSE JObj(JInt(e.Code), JStr(ToValidUTF8(e.Message)),
              MarshalRawOmitEmpty(e.Data))

\* faulty variant: no newline is appended to the encoded response
MarshalResponseNoNewline(response) ==
    LET i == MarshalAny(response.ID)
    IN  IF i.err THEN [err |-> TRUE, bytes |-> NoPayload]
        ELSE [err |-> FALSE,
              bytes |-> Payload("object",
                                JStr(ToValidUTF8(response.JsonRPC)),
                                Absent, Absent, i.v,
                                MarshalRawOmitEmpty(response.Result),
                                MarshalError(response.Error), FALSE)]

MarshalResponse(response) ==
    LET i == MarshalAny(response.ID)
    IN  IF i.err THEN [err |-> TRUE, bytes |-> NoPayload]
        ELSE [err |-> FALSE,
              bytes |-> Payload("object",
                                JStr(ToValidUTF8(response.JsonRPC)),
                                Absent, Absent, i.v,
                                MarshalRawOmitEmpty(response.Result),
                                MarshalError(response.Error), TRUE)]

(***************************************************************************)
(* NewErrorResponse.                                                       *)
(***************************************************************************)
\* faulty variant: the id is copied into the response whatever the error's code
NewErrorResponseKeepsId(id, jsonError) ==
    IF jsonError = NoError THEN [err |-> TRUE, bytes |-> NoPayload]
    ELSE IF id = GoNil /\ ~(jsonError.Code = ParseError
                            \/ jsonError.Code = InvalidRequest)
    THEN [err |-> TRUE, bytes |-> NoPayload]
    ELSE IF id.t \in {"nil", "int", "float64", "string"}
    THEN MarshalResponse([JsonRPC |-> jsonRPCProtocol, Result |-> EmptyRaw,
                          Error |-> jsonError, ID |-> id])
    ELSE [err |-> TRUE, bytes |-> NoPayload]

\* faulty variant: the id is used as passed, with no check of nil or of its type
NewErrorResponseUnchecked(id, jsonError) ==
    IF jsonError = NoError THEN [err |-> TRUE, bytes |-> NoPayload]
    ELSE MarshalResponse([JsonRPC |-> jsonRPCProtocol, Result |-> EmptyRaw,
                          Error |-> jsonError,
                          ID |-> IF jsonError.Code # ParseError
                                    /\ jsonError.Code # InvalidRequest
                                 THEN id ELSE GoNil])

NewErrorResponse(id, jsonError) ==
    IF jsonError = NoError THEN [err |-> TRUE, bytes |-> NoPayload]
    ELSE IF jsonError.Code # ParseError /\ jsonError.Code # InvalidRequest
    THEN IF id = GoNil THEN [err |-> TRUE, bytes |-> NoPayload]
         ELSE IF id.t \in {"int", "float64", "string"}
         THEN MarshalResponse([JsonRPC |-> jsonRPCProtocol,
                               Result |-> EmptyRaw,
                               Error |-> jsonError, ID |-> id])
         ELSE [err |-> TRUE, bytes |-> NoPayload]
    ELSE MarshalResponse([JsonRPC |-> jsonRPCProtocol, Result |-> EmptyRaw,
                          Error |-> jsonError, ID |-> GoNil])

(***************************************************************************)
(* marshalResultResponse, NewResultResponse and request.NewResultResponse. *)
(***************************************************************************)
\* faulty variant: a nil result is not marshalled, and Result stays empty
marshalResultResponseSkipsNil(response, result) ==
    LET r == MarshalAny(result)
    IN  IF r.err THEN [err |-> TRUE, bytes |-> NoPayload]
        ELSE MarshalResponse([response EXCEPT
                 !.Result = IF result = GoNil THEN EmptyRaw ELSE r.v])

marshalResultResponse(response, result) ==
    LET r == MarshalAny(result)
    IN  IF r.err THEN [err |-> TRUE, bytes |-> NoPayload]
        ELSE MarshalResponse([response EXCEPT !.Result = r.v])

NewResultResponse(id, result) ==
    marshalResultResponse([JsonRPC |-> jsonRPCProtocol, Result |-> EmptyRaw,
                           Error |-> NoError, ID |-> id], result)

\* faulty variant: the id of the request is not copied into the response
RequestNewResultResponseDropsId(r, result) ==
    marshalResultResponse([JsonRPC |-> jsonRPCProtocol, Result |-> EmptyRaw,
                           Error |-> NoError, ID |-> GoNil], result)

RequestNewResultResponse(r, result) ==
    marshalResultResponse([JsonRPC |-> jsonRPCProtocol, Result |-> EmptyRaw,
                           Error |-> NoError, ID |-> r.ID], result)

(***************************************************************************)
(* The inputs drawn.                                                       *)
(***************************************************************************)
BigOffsets == 0 .. MaxBigOffset

\* number literals a peer can write
WireNumbers ==
    {JInt(1), JNum(1, "half")} \cup {JNum(n, "big") : n \in BigOffsets}

WireIds ==
    {Absent, JNull, JBool(TRUE), JStr("a"), JArr, JAnyObj} \cup WireNumbers

WireVersions == {Absent, JNull, JInt(2), JStr("2.0"), JStr("1.0")}

WireMethods ==
    {Absent, JNull, JInt(1), JStr(""), JStr("subtract"),
     JStr("rpc.subtract"), JStr("rpc")}

WireParams == {Absent, JNull, JArr}

WireResults == {Absent, JNull, JStr("ok")}

WireCodes ==
    {Absent, JStr("x"), JNum(1, "half"), JInt(ParseError),
     JInt(InvalidRequest), JInt(MethodNotFound), JInt(CustomCodeMax)}

WireErrors ==
    {Absent, JNull, JStr("x")}
    \cup {JObj(c, m, d) : c \in WireCodes, m \in {JStr("m"), JInt(1)},
                          d \in {Absent, JArr}}

TopKinds == {"malformed", "null", "array", "string", "number", "bool"}

RequestPayloads ==
    {Payload("object", j, m, p, i, Absent, Absent, FALSE) :
        j \in WireVersions, m \in WireMethods, p \in WireParams,
        i \in WireIds}

ResponsePayloads ==
    {Payload("object", j, Absent, Absent, i, r, e, FALSE) :
        j \in WireVersions, i \in WireIds, r \in WireResults,
        e \in WireErrors}

PeerPayloads ==
    {NonObject(t) : t \in TopKinds} \cup RequestPayloads \cup ResponsePayloads

\* Go arguments of the builders
Methods == {"", "subtract", "rpc.subtract", "rpc", "sub#"}

Serializable == {GoSlice, GoString("ok"), GoNilPtr}

Values == {GoNil, GoChan} \cup Serializable

\* the ids the type parameter I of NewRequest and NewResultResponse admits
TypedIds ==
    {GoInt(1, "int"), GoFloat(1, "int"), GoFloat(1, "half"), GoNaN,
     GoString("a"), GoString("a#")}
    \cup {GoInt(n, "big") : n \in BigOffsets}
    \cup {GoFloat(n, "big") : n \in {m \in BigOffsets : m % 2 = 0}}

\* the ids NewErrorResponse can be passed as an `any`
AnyIds == TypedIds \cup {GoNil, GoBool(TRUE), GoSlice}

\* the arguments of NewJsonRPCError: the ends of the custom range, their
\* neighbours, and a reserved code
Codes ==
    {CustomCodeMin - 1, CustomCodeMin, CustomCodeMax, CustomCodeMax + 1,
     InvalidRequest}

Messages == {"Database error", ""}

CanonNames ==
    {"JsonParseError", "JsonInvalidRequest", "JsonMethodNotFound",
     "JsonInvalidMethodParameters", "JsonInternalError"}

\* the error objects a caller can hold: nil, the canonical ones, and what
\* NewJsonRPCError and AddData return
ErrorArgs(c) ==
    {NoError} \cup {c[n] : n \in CanonNames}
    \cup {NewJsonRPCError(code, "Database error", d).v :
             code \in {CustomCodeMin, CustomCodeMax}, d \in {GoNil, GoSlice}}
    \cup {AddData(c[n], d).v :
             n \in {"JsonParseError", "JsonInvalidMethodParameters"},
             d \in {GoNil, GoSlice}}

(***************************************************************************)
(* The state.  wire is the byte payload at hand (NoPayload when there is   *)
(* none), sent the call that built it (or the peer that sent it), ret the  *)
(* result of the parse applied to it, canon the package's error objects,   *)
(* made the last call on an error object and what it returned.             *)
(*                                                                         *)
(* The operations share no state but the canonical error objects, so       *)
(* concurrent calls are modelled by their interleaving, one whole call at  *)
(* a time.  The caller works on one message at a time: an error object is  *)
(* made when no payload is at hand, to be passed to NewErrorResponse.      *)
(***************************************************************************)
Call(op, method, params, id, error, result, ok) ==
    [op |-> op, method |-> method, params |-> params, id |-> id,
     error |-> error, result |-> result, ok |-> ok]

NoCall == Call("none", "", GoNil, GoNil, NoError, GoNil, FALSE)
PeerCall == Call("peer", "", GoNil, GoNil, NoError, GoNil, TRUE)

NoReturn == [op |-> "none"]

\* a call on an error object: name is the canonical variable it was called
\* on (if any), on and after the object it was called on before and after
\* the call, error the object returned, ref what the returned pointer
\* refers to, text the string returned
Made(op, name, on, after, code, message, data, ok, error, ref, text) ==
    [op |-> op, name |-> name, on |-> on, after |-> after, code |-> code,
     message |-> message, data |-> data, ok |-> ok, error |-> error,
     ref |-> ref, text |-> text]

NoMade == Made("none", "", NoError, NoError, 0, "", GoNil, FALSE, NoError,
               "nil", <<>>)

Init ==
    /\ wire = NoPayload
    /\ sent = NoCall
    /\ ret = NoReturn
    /\ canon = CanonInit
    /\ made = NoMade

Idle == sent = NoCall

NothingMade == made = NoMade

\* a payload arrives from the peer
Receive ==
    /\ Idle
    /\ NothingMade
    /\ \E p \in PeerPayloads : wire' = p
    /\ sent' = PeerCall
    /\ UNCHANGED <<ret, canon, made>>

CallNewNotification ==
    /\ Idle
    /\ NothingMade
    /\ \E method \in Methods, params \in Values :
          LET r == NewNotification(method, params)
          IN  /\ wire' = r.bytes
              /\ sent' = Call("NewNotification", method, params, GoNil,
                              NoError, GoNil, ~r.err)
    /\ UNCHANGED <<ret, canon, made>>

CallNewRequest ==
    /\ Idle
    /\ NothingMade
    /\ \E method \in Methods, params \in Values, id \in TypedIds :
          LET r == NewRequest(method, params, id)
          IN  /\ wire' = r.bytes
              /\ sent' = Call("NewRequest", method, params, id, NoError,
                              GoNil, ~r.err)
    /\ UNCHANGED <<ret, canon, made>>

\* the error objects at hand: the one just made, or else any a caller can
\* hold
HeldErrors == IF NothingMade THEN ErrorArgs(canon) ELSE {made.error}

CallNewErrorResponse ==
    /\ Idle
    /\ \E id \in AnyIds, e \in HeldErrors :
          LET r == NewErrorResponse(id, e)
          IN  /\ wire' = r.bytes
              /\ sent' = Call("NewErrorResponse", "", GoNil, id, e, GoNil,
                              ~r.err)
    /\ UNCHANGED <<ret, canon, made>>

CallNewResultResponse ==
    /\ Idle
    /\ NothingMade
    /\ \E id \in TypedIds, result \in Values :
          LET r == NewResultResponse(id, result)
          IN  /\ wire' = r.bytes
              /\ sent' = Call("NewResultResponse", "", GoNil, id, NoError,
                              result, ~r.err)
    /\ UNCHANGED <<ret, canon, made>>

HavePayload == wire # NoPayload /\ ret = NoReturn

CallParseNotification ==
    /\ HavePayload
    /\ LET r == ParseNotification(wire)
       IN  ret' = [op |-> "ParseNotification", ok |-> r.ok,
                   notification |-> r.notification, error |-> r.error]
    /\ UNCHANGED <<wire, sent, canon, made>>

CallParseRequest ==
    /\ HavePayload
    /\ LET r == ParseRequest(wire, canon)
       IN  ret' = [op |-> "ParseRequest", ok |-> r.ok,
                   request |-> r.request, error |-> r.error]
    /\ UNCHANGED <<wire, sent, canon, made>>

CallParseResponse ==
    /\ HavePayload
    /\ LET r == ParseResponse(wire)
       IN  ret' = [op |-> "ParseResponse", ok |-> r.ok,
                   response |-> r.response, error |-> r.error]
    /\ UNCHANGED <<wire, sent, canon, made>>

\* r.NewResultResponse(result) on the request r that ParseRequest returned
CallRequestNewResultResponse ==
    /\ ret.op = "ParseRequest"
    /\ ret.ok
    /\ \E result \in Values :
          LET r == RequestNewResultResponse(ret.request, result)
          IN  /\ wire' = r.bytes
              /\ sent' = Call("request.NewResultResponse", "", GoNil,
                              ret.request.ID, NoError, result, ~r.err)
    /\ ret' = NoReturn
    /\ UNCHANGED <<canon, made>>

CallNewJsonRPCError ==
    /\ Idle
    /\ \E code \in Codes, message \in Messages, data \in Values :
          LET r == NewJsonRPCError(code, message, data)
          IN  made' = Made("NewJsonRPCError", "", NoError, NoError, code,
                           message, data, ~r.err, r.v,
                           IF r.err THEN "nil" ELSE "new", <<>>)
    /\ UNCHANGED <<wire, sent, ret, canon>>

\* the error object made by the last call, if it made one
MadeObject == made.op \in {"NewJsonRPCError", "AddData"} /\ made.ok

\* canonical.AddData(data): the receiver is the package variable
CallAddDataCanonical ==
    /\ Idle
    /\ \E n \in CanonNames, data \in Values :
          LET r == AddData(canon[n], data)
          IN  /\ canon' = [canon EXCEPT ![n] = r.recv]
              /\ made' = Made("AddData", n, canon[n], r.recv, canon[n].Code,
                              canon[n].Message, data, ~r.err, r.v, r.ref,
                              <<>>)
    /\ UNCHANGED <<wire, sent, ret>>

\* e.AddData(data) on the object e the last call made
CallAddData ==
    /\ Idle
    /\ MadeObject
    /\ \E data \in Values :
          LET r == AddData(made.error, data)
          IN  made' = Made("AddData", "", made.error, r.recv,
                           made.error.Code, made.error.Message, data,
                           ~r.err, r.v, r.ref, <<>>)
    /\ UNCHANGED <<wire, sent, ret, canon>>

\* e.Error() on a canonical object, through a pointer to the variable
CallError ==
    /\ Idle
    /\ \E n \in CanonNames :
          made' = Made("Error", n, canon[n], canon[n], canon[n].Code,
                       canon[n].Message, GoNil, TRUE, NoError, "nil",
                       Error(canon[n]))
    /\ UNCHANGED <<wire, sent, ret, canon>>

\* the caller drops the payload, what was parsed from it, and the error
\* object made
Discard ==
    /\ ~Idle \/ ~NothingMade
    /\ wire' = NoPayload
    /\ sent' = NoCall
    /\ ret' = NoReturn
    /\ made' = NoMade
    /\ UNCHANGED canon

Next ==
    \/ Receive
    \/ CallNewNotification
    \/ CallNewRequest
    \/ CallNewErrorResponse
    \/ CallNewResultResponse
    \/ CallParseNotification
    \/ CallParseRequest
    \/ CallParseResponse
    \/ CallRequestNewResultResponse
    \/ CallNewJsonRPCError
    \/ CallAddDataCanonical
    \/ CallAddData
    \/ CallError
    \/ Discard

Spec == Init /\ [][Next]_vars

(***************************************************************************)
(* What the claims speak of.                                               *)
(***************************************************************************)
WellFormed(p) == p.top # "malformed"

IsParseOrInvalid(code) == code = ParseError \/ code = InvalidRequest

ParsedRequest == ret.op = "ParseRequest"
ParsedResponse == ret.op = "ParseResponse"
Built(op) == sent.op = op /\ sent.ok

ValidUTF8(s) == ToValidUTF8(s) = s

(***************************************************************************)
(* C1: ParseRequest returns either a request and no error, or no request   *)
(* and the canonical error of the first violated rule, in the order:       *)
(* the payload is not JSON (ParseError), jsonrpc is not "2.0", the method  *)
(* starts with "rpc.", the id is not a JSON number or string (all three    *)
(* InvalidRequest); it succeeds when no rule is violated.                  *)
(***************************************************************************)
C1_FirstViolatedRule(p) ==
    IF ~WellFormed(p) THEN ParseError
    ELSE IF p.jsonrpc # JStr("2.0") THEN InvalidRequest
    ELSE IF p.method.k = "string" /\ HasPrefix(p.method.s, "rpc.")
    THEN InvalidRequest
    ELSE IF p.id.k \notin {"number", "string"} THEN InvalidRequest
    ELSE 0

C1_ParseRequestFirstViolatedRule ==
    ParsedRequest =>
        /\ ret.ok <=> (ret.request # NoRequest /\ ret.error = NoError)
        /\ ~ret.ok <=> (ret.request = NoRequest /\ ret.error # NoError)
        /\ ret.ok <=> C1_FirstViolatedRule(wire) = 0
        /\ ~ret.ok => ret.error.Code = C1_FirstViolatedRule(wire)

(***************************************************************************)
(* C2: for a payload that is well-formed JSON whose jsonrpc member is      *)
(* absent or anything but the string "2.0" (a number, or a top-level       *)
(* value that is no object), ParseRequest fails with InvalidRequest;       *)
(* ParseError is returned only for bytes that are not well-formed JSON.    *)
(***************************************************************************)
C2_WrongVersionIsInvalidRequest ==
    ParsedRequest =>
        /\ (WellFormed(wire) /\ wire.jsonrpc # JStr("2.0")) =>
               (~ret.ok /\ ret.error.Code = InvalidRequest)
        /\ (~ret.ok /\ ret.error.Code = ParseError) => ~WellFormed(wire)

(***************************************************************************)
(* C3, as claimed: the bytes NewErrorResponse returns have no id member    *)
(* if and only if the error's code is ParseError or InvalidRequest, and    *)
(* for every other code the id member holds the passed id.                 *)
(***************************************************************************)
EncodesId(member, id) ==
    CASE id.t \in {"int", "float64"} -> member = JNum(id.n, id.x)
      [] id.t = "string" ->
           /\ member.k = "string"
           /\ ValidUTF8(id.s) => member.s = id.s
      [] OTHER -> FALSE

SameId(parsed, id) ==
    CASE id.t \in {"int", "float64"} -> parsed = GoFloat(id.n, id.x)
      [] id.t = "string" -> parsed = GoString(id.s)
      [] OTHER -> FALSE

C4_NullIdForParseOrInvalid ==
    (/\ sent.op = "NewErrorResponse"
     /\ sent.error # NoError
     /\ IsParseOrInvalid(sent.error.Code)) => (sent.ok /\ wire.id = JNull)

C4_ErrorResponseRoundTrip ==
    /\ C4_NullIdForParseOrInvalid
    /\ (Built("NewErrorResponse") /\ ParsedResponse) =>
          /\ ret.ok
          /\ ret.response.Error.Code = sent.error.Code
          /\ IF IsParseOrInvalid(sent.error.Code)
             THEN ret.response.ID = GoNil
             ELSE SameId(ret.response.ID, sent.id)

(***************************************************************************)
(* C4, amended: as claimed, but the id parses back equal to the passed id  *)
(* when JSON and float64 carry it exactly: a float64, a string of valid    *)
(* UTF-8, or an int that float64 represents (every int up to 2^53 in       *)
(* magnitude).  Any other id still parses back to a non-null id.           *)
(***************************************************************************)
ExactlyCarried(id) ==
    CASE id.t = "int" -> id.x = "int" \/ (id.x = "big" /\ id.n % 2 = 0)
      [] id.t = "float64" -> id.x # "nan"
      [] id.t = "string" -> ValidUTF8(id.s)
      [] OTHER -> FALSE

C4_ErrorResponseRoundTripExactIds ==
    /\ C4_NullIdForParseOrInvalid
    /\ (Built("NewErrorResponse") /\ ParsedResponse) =>
          /\ ret.ok
          /\ ret.response.Error.Code = sent.error.Code
          /\ IF IsParseOrInvalid(sent.error.Code)
             THEN ret.response.ID = GoNil
             ELSE /\ ret.response.ID # GoNil
                  /\ ExactlyCarried(sent.id) =>
                        SameId(ret.response.ID, sent.id)

C4_Witness ==
    /\ Built("NewErrorResponse")
    /\ sent.error.Code = MethodNotFound
    /\ sent.id = GoInt(1, "int")
    /\ ParsedResponse
    /\ ret.ok
    /\ ret.response.ID = GoFloat(1, "int")

(***************************************************************************)
(* C5, as claimed: NewErrorResponse fails exactly when the error is nil,   *)
(* or the code is neither ParseError nor InvalidRequest and the id is nil  *)
(* or of a type other than int, float64 and string; on failure it returns  *)
(* no bytes.                                                               *)
(***************************************************************************)
C5_ClaimedFailure(id, e) ==
    \/ e = NoError
    \/ /\ ~IsParseOrInvalid(e.Code)
       /\ id = GoNil \/ id.t \notin {"int", "float64", "string"}

C5_ErrorResponseFailsExactlyWhen ==
    sent.op = "NewErrorResponse" =>
        /\ ~sent.ok <=> C5_ClaimedFailure(sent.id, sent.error)
        /\ ~sent.ok => wire = NoPayload

(***************************************************************************)
(* C5, amended: NewErrorResponse fails exactly in the claimed cases and    *)
(* when the code is neither ParseError nor InvalidRequest and the id is a  *)
(* float64 NaN or infinity, which json.Marshal refuses; on failure it      *)
(* returns no bytes.                                                       *)
(***************************************************************************)
C5_ErrorResponseFailsExactlyWhenOrNaN ==
    sent.op = "NewErrorResponse" =>
        /\ ~sent.ok <=>
              \/ C5_ClaimedFailure(sent.id, sent.error)
              \/ ~IsParseOrInvalid(sent.error.Code) /\ sent.id = GoNaN
        /\ ~sent.ok => wire = NoPayload

C5_Witness ==
    /\ sent.op = "NewErrorResponse"
    /\ ~sent.ok
    /\ sent.error # NoError
    /\ sent.error.Code = MethodNotFound
    /\ sent.id = GoBool(TRUE)

(***************************************************************************)
(* C6, as claimed: ParseResponse rejects every payload in which both       *)
(* result and error are present and every payload in which neither is,     *)
(* and every response it returns has exactly one of result and error.      *)
(***************************************************************************)
HasResult(p) == p.result # Absent
HasError(p) == p.error # Absent

ExactlyOneDecoded(response) ==
    (response.Result # EmptyRaw) # (response.Error # NoError)

C6_RejectsBothAndNeither ==
    ParsedResponse =>
        /\ (HasResult(wire) /\ HasError(wire)) => ~ret.ok
        /\ (~HasResult(wire) /\ ~HasError(wire)) => ~ret.ok
        /\ ret.ok => ExactlyOneDecoded(ret.response)

(***************************************************************************)
(* C6, amended: a null error member counts as absent.  ParseResponse       *)
(* rejects every payload with both a result member (null included) and a   *)
(* non-null error member, and every payload with neither a result member   *)
(* nor a non-null error member; every response it returns has exactly one  *)
(* of result and error.                                                    *)
(***************************************************************************)
HasNonNullError(p) == p.error.k \notin {"absent", "null"}

C6_RejectsBothAndNeitherNonNull ==
    ParsedResponse =>
        /\ (HasResult(wire) /\ HasNonNullError(wire)) => ~ret.ok
        /\ (~HasResult(wire) /\ ~HasNonNullError(wire)) => ~ret.ok
        /\ ret.ok => ExactlyOneDecoded(ret.response)

C6_Witness ==
    /\ ParsedResponse
    /\ wire.jsonrpc = JStr("2.0")
    /\ wire.result = JStr("ok")
    /\ wire.error = JObj(JInt(MethodNotFound), JStr("m"), Absent)
    /\ wire.id = JInt(1)
    /\ ~ret.ok
    /\ ret.error = "response must not have a result and an error"

(***************************************************************************)
(* C7, as claimed: a payload with jsonrpc "2.0", exactly one of result     *)
(* and error, and an absent or null id is rejected when error is absent,   *)
(* and when error is present is accepted if and only if the error's code   *)
(* is ParseError or InvalidRequest.                                        *)
(***************************************************************************)
C7_Given(p) ==
    /\ p.top = "object"
    /\ p.jsonrpc = JStr("2.0")
    /\ p.id \in {Absent, JNull}
    /\ HasResult(p) # HasNonNullError(p)

WireCodeIsParseOrInvalid(p) ==
    /\ p.error.k = "object"
    /\ p.error.code \in {JInt(ParseError), JInt(InvalidRequest)}

C7_NullIdOnlyWithParseOrInvalid ==
    (ParsedResponse /\ C7_Given(wire)) =>
        IF HasNonNullError(wire)
        THEN ret.ok <=> WireCodeIsParseOrInvalid(wire)
        ELSE ~ret.ok

(***************************************************************************)
(* C7, amended: as claimed, for a payload whose error object, when it has  *)
(* one, has a string for message (an error object with another message    *)
(* does not decode, and is rejected whatever its code).                    *)
(***************************************************************************)
MessageIsString(p) ==
    p.error.k = "object" =>
        p.error.message.k \in {"absent", "null", "string"}

C7_NullIdOnlyWithParseOrInvalidDecoded ==
    (ParsedResponse /\ C7_Given(wire) /\ MessageIsString(wire)) =>
        IF HasNonNullError(wire)
        THEN ret.ok <=> WireCodeIsParseOrInvalid(wire)
        ELSE ~ret.ok

C7_Witness ==
    /\ ParsedResponse
    /\ C7_Given(wire)
    /\ wire.id = Absent
    /\ wire.error = JObj(JInt(InvalidRequest), JStr("m"), Absent)
    /\ ret.ok

(***************************************************************************)
(* C8, as claimed: in every response ParseResponse returns, the id is      *)
(* non-null if the response has a result or an error code other than       *)
(* ParseError and InvalidRequest, and the id is null if the error code is  *)
(* ParseError or InvalidRequest.                                           *)
(***************************************************************************)
NeedsId(response) ==
    response.Error = NoError \/ ~IsParseOrInvalid(response.Error.Code)

C8_IdNullIffParseOrInvalid ==
    (ParsedResponse /\ ret.ok) =>
        /\ NeedsId(ret.response) => ret.response.ID # GoNil
        /\ ~NeedsId(ret.response) => ret.response.ID = GoNil

(***************************************************************************)
(* C8, amended: in every response ParseResponse returns, the id is         *)
(* non-null if the response has a result or an error code other than       *)
(* ParseError and InvalidRequest; with one of these two codes the id may   *)
(* be null or not.                                                         *)
(***************************************************************************)
C8_IdNonNullUnlessParseOrInvalid ==
    (ParsedResponse /\ ret.ok) =>
        (NeedsId(ret.response) => ret.response.ID # GoNil)

C8_Witness ==
    /\ ParsedResponse
    /\ ret.ok
    /\ ret.response.Error # NoError
    /\ ret.response.Error.Code = MethodNotFound
    /\ ret.response.ID = GoString("a")

(***************************************************************************)
(* C9, as claimed: for every method not starting with "rpc.", every        *)
(* serializable params (nil included) and every id of type int, float64    *)
(* or string, NewRequest succeeds, and ParseRequest applied to its output  *)
(* succeeds and yields a request whose method, params (absent when nil     *)
(* was passed) and id (as a number or string of the same value) equal the  *)
(* inputs.                                                                 *)
(***************************************************************************)
C9_Given ==
    /\ sent.op = "NewRequest"
    /\ ~HasPrefix(sent.method, "rpc.")
    /\ sent.params \in Serializable \cup {GoNil}

\* the raw params a request holds for the params passed to the builder
C9_ParamsOf(params) ==
    IF params = GoNil THEN EmptyRaw ELSE MarshalAny(params).v

C9_RequestRoundTrip ==
    C9_Given =>
        /\ sent.ok
        /\ ParsedRequest =>
              /\ ret.ok
              /\ ret.request.Method = sent.method
              /\ ret.request.Params = C9_ParamsOf(sent.params)
              /\ SameId(ret.request.ID, sent.id)

(***************************************************************************)
(* C9, amended: for every method not starting with "rpc.", every           *)
(* serializable params (nil included) and every id of type int, float64    *)
(* or string except a float64 NaN or infinity, NewRequest succeeds and     *)
(* ParseRequest applied to its output succeeds and yields a request with   *)
(* the params passed (absent when nil was passed), with the method passed  *)
(* when it is valid UTF-8, and with an id of the same value when JSON and  *)
(* float64 carry it exactly (a float64, a string of valid UTF-8, an int    *)
(* that float64 represents).                                               *)
(***************************************************************************)
C9_RequestRoundTripExact ==
    (C9_Given /\ sent.id # GoNaN) =>
        /\ sent.ok
        /\ ParsedRequest =>
              /\ ret.ok
              /\ ret.request.Params = C9_ParamsOf(sent.params)
              /\ ValidUTF8(sent.method) => ret.request.Method = sent.method
              /\ ExactlyCarried(sent.id) => SameId(ret.request.ID, sent.id)

C9_Witness ==
    /\ Built("NewRequest")
    /\ sent.method = "subtract"
    /\ sent.params = GoNil
    /\ sent.id = GoInt(1, "int")
    /\ ParsedRequest
    /\ ret.ok
    /\ ret.request.Params = EmptyRaw
    /\ ret.request.ID = GoFloat(1, "int")

(***************************************************************************)
(* C10, as claimed: for every id of type int, float64 or string and every  *)
(* serializable result (a nil result included, which is serialized as      *)
(* result null), ParseResponse applied to the output of                    *)
(* NewResultResponse(id, result) succeeds and returns a response with no   *)
(* error and a non-null id.                                                *)
(***************************************************************************)
C10_Given ==
    /\ sent.op = "NewResultResponse"
    /\ sent.result \in Serializable \cup {GoNil}

C10_Accepted ==
    /\ sent.ok
    /\ sent.result = GoNil => wire.result = JNull
    /\ ParsedResponse =>
          /\ ret.ok
          /\ ret.response.Error = NoError
          /\ ret.response.ID # GoNil

C11_SameAsNewResultResponse ==
    sent.op = "request.NewResultResponse" =>
        LET b == NewResultResponse(sent.id, sent.result)
        IN  /\ sent.ok = ~b.err
            /\ wire = b.bytes
            /\ sent.ok =>
                  /\ wire.id = MarshalAny(sent.id).v
                  /\ wire.id \notin {Absent, JNull}

C11_Witness ==
    /\ Built("request.NewResultResponse")
    /\ sent.id = GoFloat(1, "int")
    /\ sent.result = GoString("ok")
    /\ wire.id = JInt(1)
    /\ wire.result = JStr("ok")

(***************************************************************************)
(* C12: with serializable data, NewJsonRPCError(code, message, data)       *)
(* succeeds if and only if -32099 <= code <= -32000 (both ends succeed,    *)
(* their neighbours and the reserved codes fail); on failure it returns    *)
(* no error object, and on success the object carries exactly the given    *)
(* code and message.                                                       *)
(***************************************************************************)
C12_Given ==
    /\ made.op = "NewJsonRPCError"
    /\ made.data \in Serializable \cup {GoNil}

C12_CustomRange ==
    C12_Given =>
        /\ made.ok <=> (-32099 <= made.code /\ made.code <= -32000)
        /\ ~made.ok => made.error = NoError
        /\ made.ok =>
              /\ made.error # NoError
              /\ made.error.Code = made.code
              /\ made.error.Message = made.message

C12_Witness ==
    /\ C12_Given
    /\ made.code = -32099
    /\ made.ok
    /\ made.error.Code = -32099
    /\ made.error.Message = "Database error"

(***************************************************************************)
(* C13: in every reachable state, under any interleaving of the codec's    *)
(* operations (parse, build, AddData, NewJsonRPCError, Error), the five    *)
(* canonical error objects are never written: they keep their codes        *)
(* (-32700, -32600, -32601, -32602, -32603), their messages, and no data.  *)
(***************************************************************************)
C13_CanonicalNeverWritten ==
    /\ canon.JsonParseError =
          [Code |-> -32700, Message |-> "Parse error", Data |-> EmptyRaw]
    /\ canon.JsonInvalidRequest =
          [Code |-> -32600, Message |-> "Invalid Request", Data |-> EmptyRaw]
    /\ canon.JsonMethodNotFound =
          [Code |-> -32601, Message |-> "Method not found",
           Data |-> EmptyRaw]
    /\ canon.JsonInvalidMethodParameters =
          [Code |-> -32602, Message |-> "Invalid method parameters",
           Data |-> EmptyRaw]
    /\ canon.JsonInternalError =
          [Code |-> -32603, Message |-> "Internal error", Data |-> EmptyRaw]

\* AddData succeeded on a canonical object, whose variable is as before
C13_Witness ==
    /\ made.op = "AddData"
    /\ made.name = "JsonInvalidMethodParameters"
    /\ made.data = GoSlice
    /\ made.ok
    /\ made.error.Data = JArr
    /\ canon.JsonInvalidMethodParameters.Data = EmptyRaw

(***************************************************************************)
(* C14: AddData(data) called on any error object e, a canonical one        *)
(* included, leaves e's code, message and data unchanged whether it        *)
(* succeeds or fails, and on success returns a distinct new object with    *)
(* e's code and message and the given data as payload.                     *)
(***************************************************************************)
C14_AddDataLeavesReceiver ==
    made.op = "AddData" =>
        /\ made.after = made.on
        /\ made.name # "" => canon[made.name] = made.on
        /\ made.ok =>
              /\ made.ref = "new"
              /\ made.error.Code = made.on.Code
              /\ made.error.Message = made.on.Message
              /\ made.error.Data = MarshalAny(made.data).v

\* AddData on an object that already holds data
C14_Witness ==
    /\ made.op = "AddData"
    /\ made.on = Err(CustomCodeMin, "Database error", JArr)
    /\ made.data = GoString("ok")
    /\ made.ok
    /\ made.error = Err(CustomCodeMin, "Database error", JStr("ok"))
    /\ made.after.Data = JArr

(***************************************************************************)
(* C15, as claimed: ParseNotification fails if and only if the bytes are   *)
(* not well-formed JSON, or the jsonrpc member is absent or not exactly    *)
(* "2.0", or the method starts with "rpc."; otherwise it returns a         *)
(* notification whose method and params are those of the payload.  On      *)
(* failure it returns no notification.                                     *)
(***************************************************************************)
ParsedNotification == ret.op = "ParseNotification"

C15_ClaimedFailure(p) ==
    \/ ~WellFormed(p)
    \/ p.jsonrpc # JStr("2.0")
    \/ p.method.k = "string" /\ HasPrefix(p.method.s, "rpc.")

\* the notification holds the method and the params of the payload
C15_Carries(notification, p) ==
    /\ notification # NoNotification
    /\ p.method.k = "string" => notification.Method = p.method.s
    /\ p.method.k \in {"absent", "null"} => notification.Method = ""
    /\ notification.Params = IF p.params = Absent THEN EmptyRaw ELSE p.params

C15_ParseNotificationFailsExactlyWhen ==
    ParsedNotification =>
        /\ ~ret.ok <=> C15_ClaimedFailure(wire)
        /\ ~ret.ok => ret.notification = NoNotification
        /\ ret.ok => C15_Carries(ret.notification, wire)

(***************************************************************************)
(* C15, amended: ParseNotification fails in the claimed cases and also     *)
(* when the method member is neither a string nor null (a number, a        *)
(* boolean, an array or an object does not decode into the method).        *)
(***************************************************************************)
C15_MethodMistyped(p) ==
    p.method.k \notin {"absent", "null", "string"}

C15_ParseNotificationFailsExactlyWhenOrMistyped ==
    ParsedNotification =>
        /\ ~ret.ok <=> (C15_ClaimedFailure(wire) \/ C15_MethodMistyped(wire))
        /\ ~ret.ok => ret.notification = NoNotification
        /\ ret.ok => C15_Carries(ret.notification, wire)

C15_Witness ==
    /\ ParsedNotification
    /\ wire.jsonrpc = JStr("2.0")
    /\ wire.method = JStr("subtract")
    /\ wire.params = JArr
    /\ wire.id = Absent
    /\ ret.ok
    /\ ret.notification.Method = "subtract"
    /\ ret.notification.Params = JArr

(***************************************************************************)
(* C16: every notification returned by ParseNotification and every         *)
(* request returned by ParseRequest has a non-empty method name: a         *)
(* payload whose method member is absent or the empty string is rejected.  *)
(***************************************************************************)
C16_MethodNonEmpty ==
    /\ (ParsedNotification /\ ret.ok) => ret.notification.Method # ""
    /\ (ParsedRequest /\ ret.ok) => ret.request.Method # ""
    /\ (ParsedNotification \/ ParsedRequest) =>
          (wire.method \in {Absent, JStr("")} => ~ret.ok)

(***************************************************************************)
(* C17: when params is nil, the bytes produced by NewNotification and by   *)
(* NewRequest have no params member at all (never "params":null); when     *)
(* params is non-nil and serializable, the params member is present and    *)
(* holds the serialized params.                                            *)
(***************************************************************************)
C17_ParamsOmittedWhenNil ==
    (Built("NewNotification") \/ Built("NewRequest")) =>
        /\ sent.params = GoNil => wire.params = Absent
        /\ sent.params \in Serializable =>
              /\ wire.params # Absent
              /\ wire.params = MarshalAny(sent.params).v

C17_Witness ==
    /\ Built("NewNotification")
    /\ sent.method = "subtract"
    /\ sent.params = GoNil
    /\ wire.method = JStr("subtract")
    /\ wire.params = Absent

(***************************************************************************)
(* C18: every byte payload returned successfully by NewNotification,       *)
(* NewRequest, NewResultResponse, request.NewResultResponse and            *)
(* NewErrorResponse is a single JSON object followed by exactly one        *)
(* newline byte, which is its last byte.                                   *)
(***************************************************************************)
Builders ==
    {"NewNotification", "NewRequest", "NewResultResponse",
     "request.NewResultResponse", "NewErrorResponse"}

C18_EndsWithNewline ==
    (sent.op \in Builders /\ sent.ok) =>
        /\ wire.top = "object"
        /\ wire.nl

C18_Witness ==
    /\ Built("NewErrorResponse")
    /\ sent.error = JsonInternalError
    /\ sent.id = GoString("a")
    /\ wire.top = "object"
    /\ wire.id = JStr("a")
    /\ wire.nl

(***************************************************************************)
(* C19: an error object with no data is serialized without a data member:  *)
(* the error response NewErrorResponse builds from an error created by     *)
(* NewJsonRPCError(code, message, nil) or by AddData(nil), like the one    *)
(* built from a canonical error, has no "data" key (never "data":null).    *)
(***************************************************************************)
\* the error passed to NewErrorResponse was given no data
C19_NoDataGiven ==
    \/ \E n \in CanonNames : sent.error = canon[n]
    \/ /\ MadeObject
       /\ made.data = GoNil
       /\ sent.error = made.error

C19_NoDataMember ==
    (Built("NewErrorResponse") /\ C19_NoDataGiven) =>
        /\ wire.error.k = "object"
        /\ wire.error.data = Absent

(***************************************************************************)
(* C20, as claimed: ParseResponse evaluates its checks in the fixed order  *)
(* (1) malformed JSON, (2) jsonrpc not "2.0", (3) neither result nor       *)
(* error, (4) both result and error, (5) id null with no error, (6) id     *)
(* null with an error code other than ParseError and InvalidRequest, and   *)
(* reports only the first violated one.                                    *)
(***************************************************************************)
\* the check ParseResponse reported: 0 when it accepted the payload, 1 for
\* an error of json.Unmarshal
C20_Reported ==
    CASE ret.ok -> 0
      [] ret.error \in {"syntax", "type"} -> 1
      [] ret.error = "jsonrpc must be exactly 2.0" -> 2
      [] ret.error = "response must have a result or an error" -> 3
      [] ret.error = "response must not have a result and an error" -> 4
      [] ret.error = "ID must not be null when error does not exist" -> 5
      [] ret.error = "ID must be null only for ParseError, InvalidRequest"
           -> 6

C20_IdNull(p) == p.id \in {Absent, JNull}

C20_FirstViolated(p) ==
    IF ~WellFormed(p) THEN 1
    ELSE IF p.jsonrpc # JStr("2.0") THEN 2
    ELSE IF ~HasResult(p) /\ ~HasError(p) THEN 3
    ELSE IF HasResult(p) /\ HasError(p) THEN 4
    ELSE IF C20_IdNull(p) /\ ~HasError(p) THEN 5
    ELSE IF C20_IdNull(p) /\ ~WireCodeIsParseOrInvalid(p) THEN 6
    ELSE 0

C20_ChecksInOrder ==
    ParsedResponse => C20_Reported = C20_FirstViolated(wire)

(***************************************************************************)
(* C20, amended: the first check is that json.Unmarshal succeeds, which    *)
(* fails for malformed JSON and also for well-formed JSON that does not    *)
(* fit the response structure (a top-level value that is neither an        *)
(* object nor null, a jsonrpc that is neither a string nor null, an error  *)
(* that is neither an object nor null, an error code that is no integer,   *)
(* an error message that is no string); in the later checks an error       *)
(* member that is null counts as no error.  The order is as claimed.       *)
(***************************************************************************)
C20_Decodes(p) ==
    /\ p.top \in {"object", "null"}
    /\ p.jsonrpc.k \in {"absent", "null", "string"}
    /\ p.error.k \in {"absent", "null", "object"}
    /\ p.error.k = "object" =>
          /\ \/ p.error.code.k \in {"absent", "null"}
             \/ p.error.code.k = "number" /\ p.error.code.x = "int"
          /\ p.error.message.k \in {"absent", "null", "string"}

C20_FirstViolatedDecoded(p) ==
    IF ~C20_Decodes(p) THEN 1
    ELSE IF p.jsonrpc # JStr("2.0") THEN 2
    ELSE IF ~HasResult(p) /\ ~HasNonNullError(p) THEN 3
    ELSE IF HasResult(p) /\ HasNonNullError(p) THEN 4
    ELSE IF C20_IdNull(p) /\ ~HasNonNullError(p) THEN 5
    ELSE IF C20_IdNull(p) /\ ~WireCodeIsParseOrInvalid(p) THEN 6
    ELSE 0

C20_ChecksInOrderDecoded ==
    ParsedResponse => C20_Reported = C20_FirstViolatedDecoded(wire)

\* neither result nor error, and a null id: reported as the former
C20_Witness ==
    /\ ParsedResponse
    /\ wire.jsonrpc = JStr("2.0")
    /\ wire.result = Absent
    /\ wire.error = Absent
    /\ wire.id = JNull
    /\ ~ret.ok
    /\ ret.error = "response must have a result or an error"

(***************************************************************************)
(* C21: ParseResponse never inspects the JSON type of a non-null id: a     *)
(* payload with jsonrpc "2.0" and exactly one of result and error is       *)
(* accepted with an id that is a boolean, an array or an object exactly    *)
(* as with a number or string id, while ParseRequest rejects such ids: the *)
(* ids accepted in responses are strictly more than those accepted in      *)
(* requests.                                                               *)
(***************************************************************************)
C21_OddId(p) == p.top = "object" /\ p.id.k \in {"bool", "array", "object"}

\* the same payload with a number, and with a string, for id
C21_WithId(p, id) == [p EXCEPT !.id = id]

C21_IdTypeNotInspected ==
    /\ (ParsedResponse /\ C21_OddId(wire)) =>
          /\ ret.ok = ParseResponse(C21_WithId(wire, JInt(1))).ok
          /\ ret.ok = ParseResponse(C21_WithId(wire, JStr("a"))).ok
          /\ (/\ wire.jsonrpc = JStr("2.0")
              /\ HasResult(wire)
              /\ ~HasError(wire)) => ret.ok
          /\ ret.ok => ret.response.ID.t \in {"bool", "slice", "map"}
    /\ (ParsedRequest /\ C21_OddId(wire)) => ~ret.ok
    /\ (ParsedRequest /\ ret.ok) => ParseResponse(wire).error \notin
          {"ID must not be null when error does not exist",
           "ID must be null only for ParseError, InvalidRequest"}

C21_Witness ==
    /\ ParsedResponse
    /\ wire.jsonrpc = JStr("2.0")
    /\ wire.result = JStr("ok")
    /\ wire.error = Absent
    /\ wire.id = JBool(TRUE)
    /\ ret.ok
    /\ ret.response.ID = GoBool(TRUE)

(***************************************************************************)
(* C22: NewRequest and NewNotification do not validate the method: with a  *)
(* method that starts with "rpc." or is empty they succeed as with any     *)
(* other method, and the bytes produced for a method starting with "rpc."  *)
(* are rejected by ParseRequest (with InvalidRequest) and by               *)
(* ParseNotification: not every payload the builders produce is accepted   *)
(* by the matching parser.                                                 *)
(***************************************************************************)
C22_Given ==
    /\ sent.op \in {"NewRequest", "NewNotification"}
    /\ HasPrefix(sent.method, "rpc.") \/ sent.method = ""

\* the outcome of the same call with a method that is not reserved
C22_WithPlainMethod ==
    IF sent.op = "NewRequest"
    THEN ~NewRequest("subtract", sent.params, sent.id).err
    ELSE ~NewNotification("subtract", sent.params).err

C22_OtherArgumentsFine ==
    /\ sent.params \in Serializable \cup {GoNil}
    /\ sent.op = "NewRequest" => sent.id # GoNaN

C22_MethodNotValidated ==
    C22_Given =>
        /\ sent.ok = C22_WithPlainMethod
        /\ C22_OtherArgumentsFine => sent.ok
        /\ sent.ok => wire.method = JStr(ToValidUTF8(sent.method))
        /\ (sent.ok /\ HasPrefix(sent.method, "rpc.")) =>
              /\ ParsedRequest =>
                    (~ret.ok /\ ret.error.Code = InvalidRequest)
              /\ ParsedNotification => ~ret.ok

C22_Witness ==
    /\ Built("NewRequest")
    /\ sent.method = "rpc.subtract"
    /\ sent.id = GoString("a")
    /\ wire.method = JStr("rpc.subtract")
    /\ ParsedRequest
    /\ ~ret.ok
    /\ ret.error.Code = InvalidRequest

(***************************************************************************)
(* C23: the outcome of ParseNotification does not depend on the id         *)
(* member: every payload that ParseRequest accepts is also accepted by     *)
(* ParseNotification, which returns a notification with the same method    *)
(* and params and drops the id.                                            *)
(***************************************************************************)
\* the payload without its id member
C23_WithoutId(p) == [p EXCEPT !.id = Absent]

C23_IdIgnoredByParseNotification ==
    /\ (ParsedRequest /\ ret.ok) =>
          LET n == ParseNotification(wire)
          IN  /\ n.ok
              /\ n.notification.Method = ret.request.Method
              /\ n.notification.Params = ret.request.Params
              /\ DOMAIN n.notification = {"JsonRPC", "Method", "Params"}
    /\ (ParsedNotification /\ wire.top = "object") =>
          LET n == ParseNotification(C23_WithoutId(wire))
          IN  /\ ret.ok = n.ok
              /\ ret.notification = n.notification
              /\ ret.error = n.error

C23_Witness ==
    /\ ParsedNotification
    /\ wire.jsonrpc = JStr("2.0")
    /\ wire.method = JStr("subtract")
    /\ wire.params = JArr
    /\ wire.id = JInt(1)
    /\ ret.ok
    /\ ret.notification =
          [JsonRPC |-> "2.0", Method |-> "subtract", Params |-> JArr]

====
